---- MODULE Spec2Model ----
(***************************************************************************)
(* Model of benchmark/hstar_demo.py: the static (leaky) and the rolling-   *)
(* origin (causal) validation protocols, the skill score and H*.           *)
(*                                                                         *)
(* Every protocol run is carried out in lock step on a pair of series,     *)
(* y[1] and y[2], of the same length and with the same arguments: y[2] is  *)
(* y[1] with at most one value perturbed.  Control flow depends on lengths *)
(* and arguments only, so both runs are always at the same statement.      *)
(*                                                                         *)
(* Numbers.  Series values are naturals, and every number the program      *)
(* derives from them is computed exactly.  A trailing mean is a rational   *)
(* [n, d] in lowest terms.  A forecast, an error, a skill is a quotient    *)
(* [n, d] of two integers of any size (limbs in radix Base) with d > 0,    *)
(* not reduced: quotients are compared by value (QEq, QLess).              *)
(*                                                                         *)
(* StandardScaler and Ridge are library code.  A standardized value is     *)
(* (v - mean_) / scale_ with scale_ a square root, so it is kept as the    *)
(* value v it standardizes, under the scaler of the same fit.  Ridge_fit   *)
(* solves the penalized normal equations of the standardized, centred      *)
(* data in closed form: the root cancels, and the forecast that            *)
(* inverse_transform returns is the rational number the library computes   *)
(* up to floating-point rounding.                                          *)
(***************************************************************************)
EXTENDS Integers, Sequences, FiniteSets, TLC

(* ------------------------------ bounds -------------------------------- *)
\* series values are 0..MaxVal
MaxVal == 2
\* short series have every length 0..ShortLen
ShortLen == 8
\* the long series, on which trailing windows fill up
LongLen == 32
\* lag orders are 1..MaxP
MaxP == 2
\* horizons are 1..MaxH
MaxH == 2
\* rolling runs start at most this far before the end of the series
MaxBack == 4
\* step sizes are 1..MaxStep
MaxStep == 2
\* compute_hstar is called at most this often on one mapping
MaxCalls == 2

(* ------------------------- program constants -------------------------- *)
\* rolling(window=24, min_periods=1)
Window == 24
\* Ridge(alpha=1.0)
RidgeAlpha == 1

Runs == {1, 2}

(* --------------------------- small rationals -------------------------- *)
RECURSIVE GCD(_, _)
GCD(a, b) == IF b = 0 THEN a ELSE GCD(b, a % b)

Abs(a) == IF a < 0 THEN -a ELSE a

\* n/d (d > 0) in lowest terms
Rat(n, d) ==
    LET g == GCD(Abs(n), d)
    IN [n |-> n \div g, d |-> d \div g]

\* the ascending list of a set of naturals
RECURSIVE SortedSeq(_)
SortedSeq(S) ==
    IF S = {} THEN << >>
    ELSE LET m == CHOOSE x \in S : \A z \in S : x <= z
         IN <<m>> \o SortedSeq(S \ {m})

(* ----------------------- naturals of any size ------------------------- *)
\* a natural is the sequence of its limbs in radix Base, the least
\* significant first and the last one not 0; << >> is 0
Base == 10000

RECURSIVE NOfInt(_)
NOfInt(n) == IF n = 0 THEN << >> ELSE <<n % Base>> \o NOfInt(n \div Base)

Limb(a, i) == IF i <= Len(a) THEN a[i] ELSE 0

RECURSIVE NStrip(_)
NStrip(a) ==
    IF a = << >> THEN a
    ELSE IF a[Len(a)] # 0 THEN a
    ELSE NStrip(SubSeq(a, 1, Len(a) - 1))

RECURSIVE NAddFrom(_, _, _, _)
NAddFrom(a, b, i, carry) ==
    IF i > Len(a) /\ i > Len(b) THEN NOfInt(carry)
    ELSE LET t == Limb(a, i) + Limb(b, i) + carry
         IN <<t % Base>> \o NAddFrom(a, b, i + 1, t \div Base)

NAdd(a, b) == NAddFrom(a, b, 1, 0)

\* a - b for a >= b
RECURSIVE NSubFrom(_, _, _, _)
NSubFrom(a, b, i, borrow) ==
    IF i > Len(a) THEN << >>
    ELSE LET t == a[i] - Limb(b, i) - borrow
         IN IF t < 0 THEN <<t + Base>> \o NSubFrom(a, b, i + 1, 1)
            ELSE <<t>> \o NSubFrom(a, b, i + 1, 0)

NSub(a, b) == NStrip(NSubFrom(a, b, 1, 0))

\* -1, 0, 1 as a < b, a = b, a > b
RECURSIVE NCmpFrom(_, _, _)
NCmpFrom(a, b, i) ==
    IF i = 0 THEN 0
    ELSE IF a[i] < b[i] THEN -1
    ELSE IF a[i] > b[i] THEN 1
    ELSE NCmpFrom(a, b, i - 1)

NCmp(a, b) ==
    IF Len(a) < Len(b) THEN -1
    ELSE IF Len(a) > Len(b) THEN 1
    ELSE NCmpFrom(a, b, Len(a))

\* a * m for a machine integer 0 <= m <= Base
RECURSIVE NMulSmallFrom(_, _, _, _)
NMulSmallFrom(a, m, i, carry) ==
    IF i > Len(a) THEN NOfInt(carry)
    ELSE LET t == a[i] * m + carry
         IN <<t % Base>> \o NMulSmallFrom(a, m, i + 1, t \div Base)

NMulSmall(a, m) == IF m = 0 THEN << >> ELSE NMulSmallFrom(a, m, 1, 0)

\* a * b = a * b[1] + Base * (a * b[2..])
RECURSIVE NMulFrom(_, _, _)
NMulFrom(a, b, i) ==
    IF i > Len(b) THEN << >>
    ELSE LET rest == NMulFrom(a, b, i + 1)
         IN NAdd(NMulSmall(a, b[i]), IF rest = << >> THEN rest ELSE <<0>> \o rest)

NMul(a, b) == IF a = << >> THEN a ELSE NMulFrom(a, b, 1)

\* the remainder of the limbs i.. of a on division by a machine integer
\* 0 < m <= Base
RECURSIVE NRemFrom(_, _, _)
NRemFrom(a, m, i) ==
    IF i > Len(a) THEN 0 ELSE (NRemFrom(a, m, i + 1) * Base + a[i]) % m

NDivSmall(a, m) ==
    NStrip([i \in 1..Len(a) |-> (NRemFrom(a, m, i + 1) * Base + a[i]) \div m])

(* ----------------------- integers of any size ------------------------- *)
\* sg is -1, 0 or 1 and mag the absolute value
ZOf(sg, mag) == IF mag = << >> THEN [sg |-> 0, mag |-> mag] ELSE [sg |-> sg, mag |-> mag]

ZInt(i) == ZOf(IF i < 0 THEN -1 ELSE 1, NOfInt(Abs(i)))

ZNeg(x) == [sg |-> 0 - x.sg, mag |-> x.mag]

ZAdd(x, y) ==
    IF x.sg = 0 THEN y
    ELSE IF y.sg = 0 THEN x
    ELSE IF x.sg = y.sg THEN [sg |-> x.sg, mag |-> NAdd(x.mag, y.mag)]
    ELSE LET c == NCmp(x.mag, y.mag)
         IN IF c = 0 THEN ZInt(0)
            ELSE IF c > 0 THEN [sg |-> x.sg, mag |-> NSub(x.mag, y.mag)]
            ELSE [sg |-> y.sg, mag |-> NSub(y.mag, x.mag)]

ZSub(x, y) == ZAdd(x, ZNeg(y))

ZMul(x, y) == ZOf(x.sg * y.sg, NMul(x.mag, y.mag))

ZLess(x, y) == ZSub(x, y).sg < 0

RECURSIVE ZSumTo(_, _)
ZSumTo(s, i) == IF i = 0 THEN ZInt(0) ELSE ZAdd(ZSumTo(s, i - 1), s[i])

\* s[1] + .. + s[Len(s)]
ZSum(s) == ZSumTo(s, Len(s))

\* the determinant of a square matrix, expanded along its first row
RECURSIVE ZDet(_)
ZDet(m) ==
    LET k == Len(m)
    IN IF k = 1 THEN m[1][1]
       ELSE ZSum([j \in 1..k |->
               LET minor == [r \in 1..(k - 1) |->
                               [c \in 1..(k - 1) |-> m[r + 1][IF c < j THEN c ELSE c + 1]]]
                   t == ZMul(m[1][j], ZDet(minor))
               IN IF j % 2 = 1 THEN t ELSE ZNeg(t)])

(* ------------------ quotients of integers of any size ----------------- *)
\* [n, d] with d > 0 stands for n / d; it is not reduced
QInt(i) == [n |-> ZInt(i), d |-> ZInt(1)]

\* the quotient i / j of machine integers, j > 0
QRat(i, j) == [n |-> ZInt(i), d |-> ZInt(j)]

QEq(a, b) == ZMul(a.n, b.d) = ZMul(b.n, a.d)

QLess(a, b) == ZLess(ZMul(a.n, b.d), ZMul(b.n, a.d))

QAdd(a, b) ==
    IF a.d = b.d THEN [n |-> ZAdd(a.n, b.n), d |-> a.d]
    ELSE [n |-> ZAdd(ZMul(a.n, b.d), ZMul(b.n, a.d)), d |-> ZMul(a.d, b.d)]

QSub(a, b) == QAdd(a, [n |-> ZNeg(b.n), d |-> b.d])

QMul(a, b) == [n |-> ZMul(a.n, b.n), d |-> ZMul(a.d, b.d)]

QAbs(a) == [n |-> ZOf(1, a.n.mag), d |-> a.d]

RECURSIVE QSum(_)
QSum(s) == IF Len(s) = 0 THEN QInt(0) ELSE QAdd(Head(s), QSum(Tail(s)))

\* np.mean of a non-empty list
np_mean(s) ==
    LET t == QSum(s)
    IN [n |-> t.n, d |-> ZMul(t.d, ZInt(Len(s)))]

(* ------------------------- sequences, 0-based ------------------------- *)
At(s, i) == s[i + 1]

Min(a, b) == IF a < b THEN a ELSE b
Max(a, b) == IF a > b THEN a ELSE b

\* s[a:b] of Python for 0 <= a, b: clamped to the sequence, never an error
PySlice(s, a, b) == SubSeq(s, a + 1, Min(b, Len(s)))

\* s[::-1]
Reverse(s) == [i \in 1..Len(s) |-> s[Len(s) + 1 - i]]

RECURSIVE SumRange(_, _, _)
SumRange(s, lo, hi) == IF lo > hi THEN 0 ELSE At(s, lo) + SumRange(s, lo + 1, hi)

(* ----------------------- inputs of the bounded runs ------------------- *)
\* s with the value at 0-based index i replaced by v
Perturb(s, i, v) == [s EXCEPT ![i + 1] = v]

\* the pairs <<s, s'>> with s' = s or s with one value changed at an index
\* from lo on
PairsFrom(s, lo) ==
    { <<s, s>> }
    \cup { <<s, Perturb(s, t[1], t[2])>> :
             t \in { u \in (lo..(Len(s) - 1)) \X (0..MaxVal) : At(s, u[1]) # u[2] } }

PairsOf(s) == PairsFrom(s, 0)

\* the series c, c+1, .., MaxVal, 0, 1, ..
Ramp(c, n) == [i \in 1..n |-> (i - 1 + c) % (MaxVal + 1)]

\* the series c, c, c, ..
Flat(c, n) == [i \in 1..n |-> c]

\* such pairs for every ramp and every flat series of length n
SeriesPairs(n) ==
    UNION { PairsOf(Ramp(c, n)) \cup PairsOf(Flat(c, n)) : c \in 0..MaxVal }

\* a series longer than the window: 0 up to the last index before the first
\* full window, a ramp from there on
LongSeries(n) == Flat(0, Window - 1) \o Ramp(1, n - (Window - 1))

\* the long series with every single perturbation where the window is full
LongPairs(n) == PairsFrom(LongSeries(n), Window - 1)

Lens == (0..ShortLen) \cup {LongLen}

\* the series of length n the runs over all lengths use
SeriesOf(n) == IF n < Window THEN Ramp(0, n) ELSE LongSeries(n)

\* horizon lists: 1..m for every m up to MaxH, MaxH alone, and MaxH..1
FullHorizons == [i \in 1..MaxH |-> i]

HorizonLists ==
    { SubSeq(FullHorizons, 1, m) : m \in 1..MaxH }
    \cup { <<MaxH>>, Reverse(FullHorizons) }

\* W_min of the rolling runs on a series of length n: from MaxBack before
\* its end to one past it
StartsFor(n) == { w \in (n - MaxBack)..(n + 1) : w >= 0 }


\* train fractions n/d that a double holds exactly, so that int(n * frac)
\* is the exact floor
\* train_frac=0.75
DefaultFrac == [n |-> 3, d |-> 4]

TrainFracs == { [n |-> 1, d |-> 2], [n |-> 3, d |-> 4] }

(* ------------------------- feature construction ----------------------- *)
\* s.rolling(window=w, min_periods=1).mean(): position i averages the
\* positions max(0, i-w+1) .. i
rolling_mean(s, w) ==
    [i \in 1..Len(s) |->
        LET lo == Max(i - w, 0)
        IN Rat(SumRange(s, lo, i - 1), i - lo)]

\* StandardScaler().fit(v): the fitted parameters are a function of v
StandardScaler_fit(v) == [fitted_on |-> v]

\* scaler.transform(v) of a scaler fitted in the same evaluation point
scaler_transform(v) == [i \in 1..Len(v) |-> [z |-> v[i]]]

\* np.roll with the shift negated: position i takes the value j places after it
np_roll_left(a, j) ==
    [i \in 1..Len(a) |-> a[((i - 1 + j) % Len(a)) + 1]]

\* np.roll(a, j): position i takes the value j places before it, cyclically
np_roll(a, j) ==
    [i \in 1..Len(a) |-> a[((i - 1 - j) % Len(a)) + 1]]

\* np.column_stack([np.roll(z, i) for i in range(1, p+1)])[p:]
lag_matrix(z, p) ==
    LET cols == [j \in 1..p |-> np_roll(z, j)]
        full == [i \in 1..Len(z) |-> [j \in 1..p |-> cols[j][i]]]
    IN SubSeq(full, p + 1, Len(z))

\* z[p:]
lag_target(z, p) == SubSeq(z, p + 1, Len(z))

(* ------------------------------ Ridge --------------------------------- *)
\* the largest power of q that divides d
RECURSIVE PowerIn(_, _)
PowerIn(d, q) == IF d % q # 0 THEN 1 ELSE q * PowerIn(d \div q, q)

\* the product of the numbers of a sequence
RECURSIVE NProduct(_)
NProduct(s) == IF s = << >> THEN NOfInt(1) ELSE NMulSmall(NProduct(Tail(s)), Head(s))

\* the least common multiple of the denominators of the rationals of s: the
\* product over the primes q of the largest power of q in a denominator
CommonDen(s) ==
    LET dens == { s[i].d : i \in 1..Len(s) }
        top == IF dens = {} THEN 1 ELSE CHOOSE d \in dens : \A e \in dens : e <= d
        primes == { q \in 2..top : \A r \in 2..(q - 1) : q % r # 0 }
        part(q) == LET ps == { PowerIn(d, q) : d \in dens }
                   IN CHOOSE x \in ps : \A z \in ps : z <= x
    IN NProduct(SortedSeq({ part(q) : q \in primes } \ {1}))

\* the integer v * D of a rational v >= 0 whose denominator divides D
Scaled(v, D) == ZOf(1, NMulSmall(NDivSmall(D, v.d), v.n))

\* the sequence f[1], .., f[i] with every element evaluated
RECURSIVE Concrete(_, _)
Concrete(f, i) == IF i = 0 THEN << >> ELSE Append(Concrete(f, i - 1), f[i])

\* the regressor not fitted
NoModel == [rows |-> 0, den |-> << >>, sum_x |-> << >>, sum_y |-> ZInt(0),
            det |-> ZInt(1), dets |-> << >>]

\* Ridge(alpha=1.0).fit(X_train, y_train_target) on standardized values.
\* With z = (v - mean_) / scale_ the fit centres X and y and solves
\*     (Xc'Xc + alpha I) coef_ = Xc'yc,
\* that is, in the values v,
\*     (A + alpha scale_^2 I) coef_ = b
\* with A and b the centred cross products of the rows of v and scale_^2 =
\* var_, or 1 where var_ = 0 (a constant feature is left unscaled).  With
\* v = a / D for integers a, M rows and L training values, multiplying by
\* M D^2 L^2 gives the integer system G coef_ = c solved by Cramer's rule:
\* coef_[j] = dets[j] / det.
Ridge_fit(X_train, y_train_target, scaler) ==
    LET M == Len(X_train)
        p == Len(X_train[1])
        L == Len(scaler.fitted_on)
        D == CommonDen(scaler.fitted_on)
        a == Concrete([i \in 1..L |-> Scaled(scaler.fitted_on[i], D)], L)
        X == Concrete([i \in 1..M |->
                        Concrete([j \in 1..p |-> Scaled(X_train[i][j].z, D)], p)], M)
        Y == Concrete([i \in 1..M |-> Scaled(y_train_target[i].z, D)], M)
        sx == Concrete([j \in 1..p |-> ZSum([i \in 1..M |-> X[i][j]])], p)
        sy == ZSum(Y)
        Sxx(j, k) == ZSub(ZMul(ZInt(M), ZSum([i \in 1..M |-> ZMul(X[i][j], X[i][k])])),
                          ZMul(sx[j], sx[k]))
        Sxy(j) == ZSub(ZMul(ZInt(M), ZSum([i \in 1..M |-> ZMul(X[i][j], Y[i])])),
                       ZMul(sx[j], sy))
        sa == ZSum(a)
        V == ZSub(ZMul(ZInt(L), ZSum([i \in 1..L |-> ZMul(a[i], a[i])])), ZMul(sa, sa))
        LL == ZInt(L * L)
        DD == ZOf(1, NMul(D, D))
        V1 == IF V.sg = 0 THEN ZMul(LL, DD) ELSE V
        ridge == ZMul(ZInt(RidgeAlpha * M), V1)
        G == Concrete([j \in 1..p |->
                        Concrete([k \in 1..p |->
                                    IF j = k THEN ZAdd(ZMul(LL, Sxx(j, k)), ridge)
                                    ELSE ZMul(LL, Sxx(j, k))], p)], p)
        c == Concrete([j \in 1..p |-> ZMul(LL, Sxy(j))], p)
        Gc(j) == [r \in 1..p |-> [k \in 1..p |-> IF k = j THEN c[r] ELSE G[r][k]]]
    IN [ rows |-> M, den |-> D, sum_x |-> sx, sum_y |-> sy,
         det |-> ZDet(G),
         dets |-> Concrete([j \in 1..p |-> ZDet(Gc(j))], p) ]

\* scaler.inverse_transform(model.predict(X_test)): with the row values
\* v[j] = n[j] / d[j] being standardized,
\*     y_pred = mean(y) + sum_j (v[j] - mean(x_j)) coef_[j]
\* of the training rows' values; E is a common denominator of the row
predict_inverse(mdl, X_test) ==
    LET p == Len(X_test)
        v == [j \in 1..p |-> X_test[j].z]
        E == CommonDen(v)
        MD == NMulSmall(mdl.den, mdl.rows)
        term(j) == ZMul(ZSub(ZOf(1, NMul(MD, Scaled(v[j], E).mag)),
                             ZMul(ZOf(1, E), mdl.sum_x[j])),
                        mdl.dets[j])
        EZ == ZOf(1, E)
    IN [ n |-> ZAdd(ZMul(ZMul(EZ, mdl.sum_y), mdl.det),
                    ZSum([j \in 1..p |-> term(j)])),
         d |-> ZMul(ZOf(1, NMul(E, MD)), mdl.det) ]

(* --------------------------- evaluation point ------------------------- *)
\* fit_point that lets a training input of exactly p values through
fit_point_lenient(smoothed, train_in, p) ==
    LET z == scaler_transform(train_in)
    IN [ smoothed |-> smoothed,
         train_in |-> train_in,
         scaler |-> StandardScaler_fit(train_in),
         X_train |-> lag_matrix(z, p),
         y_train_target |-> lag_target(z, p),
         error |-> IF Len(train_in) = 0 \/ Len(train_in) < p
                   THEN "ValueError" ELSE "none" ]

\* scaler fit, standardization and lag features on the smoothed training
\* input: the objects of one evaluation point, or the exception the library
\* raises (no sample for the scaler, no row for Ridge)
fit_point(smoothed, train_in, p) ==
    LET z == scaler_transform(train_in)
    IN [ smoothed |-> smoothed,
         train_in |-> train_in,
         scaler |-> StandardScaler_fit(train_in),
         X_train |-> lag_matrix(z, p),
         y_train_target |-> lag_target(z, p),
         error |-> IF Len(train_in) = 0 \/ Len(train_in) <= p
                   THEN "ValueError" ELSE "none" ]

NoFit == [smoothed |-> << >>, train_in |-> << >>, scaler |-> StandardScaler_fit(<< >>),
          X_train |-> << >>, y_train_target |-> << >>,
          error |-> "none"]

\* model = Ridge(alpha=1.0); model.fit(X_train, y_train_target) of a point
\* whose objects were built; without a training row there is no fit
fit_model(f) ==
    IF f.error # "none" \/ Len(f.X_train) = 0 THEN NoModel
    ELSE Ridge_fit(f.X_train, f.y_train_target, f.scaler)

(* ------------------------------- skill -------------------------------- *)
\* the skill without the "1 -"
skill_score_ratio(err_model, err_persist) ==
    IF err_persist > 0 THEN QMul(err_model, QRat(1, err_persist))
    ELSE QInt(0)

\* 1 - (err_model / err_persist) if err_persist > 0 else 0
skill_score(err_model, err_persist) ==
    IF err_persist > 0 THEN QSub(QInt(1), QMul(err_model, QRat(1, err_persist)))
    ELSE QInt(0)

\* np.sqrt of the square of d
np_sqrt_sq(d) == QAbs(d)

(* -------------------------------- H* ---------------------------------- *)
\* for h in reversed(sorted(results.keys())): the first h whose skill is
\* above the threshold; hs is the sorted key list, i the position scanned
RECURSIVE hstar_scan(_, _, _, _)
hstar_scan(results, hs, i, threshold) ==
    IF i = 0 THEN 0
    ELSE IF QLess(threshold, results[hs[i]].skill) THEN hs[i]
    ELSE hstar_scan(results, hs, i - 1, threshold)

\* compute_hstar scanning the horizons in ascending order
RECURSIVE hstar_scan_up(_, _, _, _)
hstar_scan_up(results, hs, i, threshold) ==
    IF i > Len(hs) THEN 0
    ELSE IF QLess(threshold, results[hs[i]].skill) THEN hs[i]
    ELSE hstar_scan_up(results, hs, i + 1, threshold)

compute_hstar_ascending(results, threshold) ==
    hstar_scan_up(results, SortedSeq(DOMAIN results), 1, threshold)

\* compute_hstar with the comparison reversed: skill below the threshold
RECURSIVE hstar_scan_below(_, _, _, _)
hstar_scan_below(results, hs, i, threshold) ==
    IF i = 0 THEN 0
    ELSE IF QLess(results[hs[i]].skill, threshold) THEN hs[i]
    ELSE hstar_scan_below(results, hs, i - 1, threshold)

compute_hstar_below(results, threshold) ==
    LET horizons == SortedSeq(DOMAIN results)
    IN hstar_scan_below(results, horizons, Len(horizons), threshold)

compute_hstar(results, threshold) ==
    LET horizons == SortedSeq(DOMAIN results)
    IN hstar_scan(results, horizons, Len(horizons), threshold)

\* threshold=0.0
DefaultThreshold == QInt(0)

(* ------------------------------- state -------------------------------- *)
VARIABLES
    proto,      \* entry point: "static", "rolling" or "hstar"
    y,          \* the pair of series the protocol is run on
    args,       \* train_frac, horizons, p, W_min, step
    pc,         \* statement the run is at
    outcome,    \* "none", or the exception that ended the run
    split_idx,  \* static protocol: int(n * train_frac)
    origins,    \* rolling protocol: origins of the range not yet visited
    origin,     \* rolling protocol: the origin being processed
    visited,    \* rolling protocol: origins processed so far, in order
    fit,        \* per run: scaler, lag matrix, targets of the current point
    model,      \* per run: the fitted regressor of the current point
    hi,         \* position in the horizon list
    locals,     \* per run: the values of each horizon iteration, in order
    results,    \* per run: the results dictionary
    ret,        \* per run: the mapping returned
    calls       \* compute_hstar calls: threshold and value returned, per run

vars == <<proto, y, args, pc, outcome, split_idx, origins, origin, visited,
          fit, model, hi, locals, results, ret, calls>>

EmptyMap == [x \in {} |-> 0]

\* the body of one horizon iteration after the forecast: true value,
\* persistence value, errors, skill
horizon_locals(ys, point, h, win, X_test, y_pred, i_true, i_persist) ==
    LET y_true == At(ys, i_true)
        y_persist == At(ys, i_persist)
        diff == QSub(y_pred, QInt(y_true))
        err_model == QMul(diff, diff)
        err_persist == (y_persist - y_true) * (y_persist - y_true)
    IN [ point |-> point, h |-> h, win |-> win, X_test |-> X_test,
         y_pred |-> y_pred, i_true |-> i_true, y_true |-> y_true,
         i_persist |-> i_persist, y_persist |-> y_persist,
         err_model |-> err_model, err_persist |-> err_persist,
         rmse |-> np_sqrt_sq(diff),
         skill |-> skill_score(err_model, err_persist) ]

Raise(e) ==
    /\ pc' = "raised"
    /\ outcome' = e

(* --------------------------- static protocol -------------------------- *)
\* split_idx = int(n * train_frac)
static_split(n, train_frac) == (n * train_frac.n) \div train_frac.d

\* y_rolled.iloc[:split_idx]
static_train_input(y_rolled, k) == PySlice(y_rolled, 0, k)

\* the guard without the lag order
static_skip_no_lag(k, p, h, n) == k + h >= n

\* if split_idx + p + h >= n: continue
static_skip(k, p, h, n) == k + p + h >= n

\* a test window that moves with the horizon
static_window_shifted(k, p, h) == <<k + h - 1, k + h - 1 + p>>

\* y_rolled.iloc[split_idx:split_idx+p]: the slice bounds of the test row
static_window(k, p, h) == <<k, k + p>>

\* y_test[h-1] with y_test = y.iloc[split_idx:]: its index in y
static_true_index(k, h) == k + h - 1

\* lines 64-86: split, smoothing of the whole series, scaler, lags, fit
StaticCall ==
    /\ proto = "static"
    /\ pc = "call"
    /\ LET n == Len(y[1])
           k == static_split(n, args.train_frac)
           f == [r \in Runs |->
                   LET y_rolled == rolling_mean(y[r], Window)
                   IN fit_point(y_rolled, static_train_input(y_rolled, k), args.p)]
       IN /\ split_idx' = k
          /\ fit' = f
          /\ model' = [r \in Runs |-> fit_model(f[r])]
          /\ IF f[1].error # "none"
             THEN /\ Raise(f[1].error)
                  /\ UNCHANGED hi
             ELSE /\ pc' = "static_loop"
                  /\ hi' = 1
                  /\ UNCHANGED outcome
    /\ UNCHANGED <<proto, y, args, origins, origin, visited, locals, results, ret, calls>>

\* lines 90-116: one iteration of the loop over horizons
StaticHorizon ==
    /\ pc = "static_loop"
    /\ hi <= Len(args.horizons)
    /\ LET n == Len(y[1])
           h == args.horizons[hi]
           win == static_window(split_idx, args.p, h)
           X_test == [r \in Runs |->
                        Reverse(scaler_transform(PySlice(fit[r].smoothed, win[1], win[2])))]
           i_true == static_true_index(split_idx, h)
           i_persist == split_idx - 1
       IN IF static_skip(split_idx, args.p, h, n)
          THEN /\ hi' = hi + 1
               /\ UNCHANGED <<pc, outcome, locals, results>>
          ELSE IF Len(X_test[1]) # args.p
          THEN /\ Raise("ValueError")
               /\ UNCHANGED <<hi, locals, results>>
          ELSE IF i_true >= n
          THEN /\ Raise("IndexError")
               /\ UNCHANGED <<hi, locals, results>>
          ELSE LET loc == [r \in Runs |->
                             horizon_locals(y[r], split_idx, h, win, X_test[r],
                                            predict_inverse(model[r], X_test[r]),
                                            i_true, i_persist)]
               IN /\ locals' = [r \in Runs |-> Append(locals[r], loc[r])]
                  /\ results' = [r \in Runs |->
                                   [x \in (DOMAIN results[r]) \cup {h} |->
                                      IF x = h
                                      THEN [rmse |-> loc[r].rmse, skill |-> loc[r].skill]
                                      ELSE results[r][x]]]
                  /\ hi' = hi + 1
                  /\ UNCHANGED <<pc, outcome>>
    /\ UNCHANGED <<proto, y, args, split_idx, origins, origin, visited, fit, model,
                   ret, calls>>

\* line 118: return results
StaticReturn ==
    /\ pc = "static_loop"
    /\ hi > Len(args.horizons)
    /\ pc' = "returned"
    /\ ret' = results
    /\ UNCHANGED <<proto, y, args, outcome, split_idx, origins, origin, visited,
                   fit, model, hi, locals, results, calls>>

(* --------------------------- rolling protocol ------------------------- *)
\* list(range(start, stop, step)) for step > 0
RECURSIVE py_range(_, _, _)
py_range(start, stop, step) ==
    IF start >= stop THEN << >>
    ELSE <<start>> \o py_range(start + step, stop, step)

\* max(horizons)
RECURSIVE py_max(_)
py_max(s) == IF Len(s) = 1 THEN s[1] ELSE Max(s[1], py_max(Tail(s)))

\* the range of origins running to the end of the series
rolling_origins_to_end(n, horizons, W_min, step) ==
    py_range(W_min, n, step)

\* origins = range(W_min, n - max(horizons), step)
rolling_origins(n, horizons, W_min, step) ==
    py_range(W_min, n - py_max(horizons), step)

\* a training slice that includes the origin itself
rolling_train_through(ys, o) == PySlice(ys, 0, o + 1)

\* y_train = y.iloc[:origin]
rolling_train(ys, o) == PySlice(ys, 0, o)

\* if origin + h >= n: continue
rolling_skip(o, h, n) == o + h >= n

\* y_rolled_train.iloc[-p:] of the o smoothed values: the slice bounds
rolling_window(o, p, h) == <<Max(o - p, 0), o>>

\* y.iloc[origin + h - 1]
rolling_true_index(o, h) == o + h - 1

\* lines 129-132: empty accumulators, the range of origins
RollingCall ==
    /\ proto = "rolling"
    /\ pc = "call"
    /\ results' = [r \in Runs |->
                     [h \in {args.horizons[i] : i \in 1..Len(args.horizons)} |->
                        [rmse |-> << >>, skill |-> << >>]]]
    /\ origins' = rolling_origins(Len(y[1]), args.horizons, args.W_min, args.step)
    /\ pc' = "roll_origins"
    /\ UNCHANGED <<proto, y, args, outcome, split_idx, origin, visited, fit, model, hi,
                   locals, ret, calls>>

\* lines 134-155: the next origin: training prefix, its smoothing, scaler,
\* lags, fit
RollingFit ==
    /\ pc = "roll_origins"
    /\ origins # << >>
    /\ LET o == Head(origins)
           f == [r \in Runs |->
                   LET y_rolled_train == rolling_mean(rolling_train(y[r], o), Window)
                   IN fit_point(y_rolled_train, y_rolled_train, args.p)]
       IN /\ origin' = o
          /\ origins' = Tail(origins)
          /\ visited' = Append(visited, o)
          /\ fit' = f
          /\ model' = [r \in Runs |-> fit_model(f[r])]
          /\ IF f[1].error # "none"
             THEN /\ Raise(f[1].error)
                  /\ UNCHANGED hi
             ELSE /\ pc' = "roll_horizons"
                  /\ hi' = 1
                  /\ UNCHANGED outcome
    /\ UNCHANGED <<proto, y, args, split_idx, locals, results, ret, calls>>

\* lines 158-182: one iteration of the loop over horizons at this origin;
\* after the last horizon the loop over origins goes on
RollingHorizon ==
    /\ pc = "roll_horizons"
    /\ hi <= Len(args.horizons)
    /\ LET n == Len(y[1])
           h == args.horizons[hi]
           win == rolling_window(origin, args.p, h)
           X_test == [r \in Runs |->
                        Reverse(scaler_transform(PySlice(fit[r].smoothed, win[1], win[2])))]
           i_true == rolling_true_index(origin, h)
           i_persist == origin - 1
           next_pc == IF hi = Len(args.horizons) THEN "roll_origins" ELSE "roll_horizons"
       IN IF rolling_skip(origin, h, n)
          THEN /\ hi' = hi + 1
               /\ pc' = next_pc
               /\ UNCHANGED <<outcome, locals, results>>
          ELSE IF Len(X_test[1]) # args.p
          THEN /\ Raise("ValueError")
               /\ UNCHANGED <<hi, locals, results>>
          ELSE IF i_true >= n
          THEN /\ Raise("IndexError")
               /\ UNCHANGED <<hi, locals, results>>
          ELSE LET loc == [r \in Runs |->
                             horizon_locals(y[r], origin, h, win, X_test[r],
                                            predict_inverse(model[r], X_test[r]),
                                            i_true, i_persist)]
               IN /\ locals' = [r \in Runs |-> Append(locals[r], loc[r])]
                  /\ results' = [r \in Runs |->
                                   [results[r] EXCEPT
                                      ![h] = [rmse |-> Append(@.rmse, loc[r].rmse),
                                              skill |-> Append(@.skill, loc[r].skill)]]]
                  /\ hi' = hi + 1
                  /\ pc' = next_pc
                  /\ UNCHANGED outcome
    /\ UNCHANGED <<proto, y, args, split_idx, origins, origin, visited, fit, model,
                   ret, calls>>

\* lines 184-193: the mean over origins of every horizon that has a sample
rolling_summary(res) ==
    [h \in {x \in DOMAIN res : Len(res[x].rmse) > 0} |->
        [rmse |-> np_mean(res[h].rmse), skill |-> np_mean(res[h].skill)]]

RollingAggregate ==
    /\ pc = "roll_origins"
    /\ origins = << >>
    /\ ret' = [r \in Runs |-> rolling_summary(results[r])]
    /\ pc' = "returned"
    /\ UNCHANGED <<proto, y, args, outcome, split_idx, origins, origin, visited,
                   fit, model, hi, locals, results, calls>>

(* ------------------------------- main --------------------------------- *)
\* lines 218-219: compute_hstar(results) of the mapping a protocol returned
MainHstar ==
    /\ proto \in {"static", "rolling"}
    /\ pc = "returned"
    /\ calls' = <<[threshold |-> DefaultThreshold,
                   hstar |-> [r \in Runs |-> compute_hstar(ret[r], DefaultThreshold)]]>>
    /\ pc' = "done"
    /\ UNCHANGED <<proto, y, args, outcome, split_idx, origins, origin, visited,
                   fit, model, hi, locals, results, ret>>

(* --------------------------- specifications --------------------------- *)
InitCommon ==
    /\ pc = IF proto = "hstar" THEN "returned" ELSE "call"
    /\ outcome = "none"
    /\ split_idx = 0
    /\ origins = << >>
    /\ origin = 0
    /\ visited = << >>
    /\ fit = [r \in Runs |-> NoFit]
    /\ model = [r \in Runs |-> NoModel]
    /\ hi = 0
    /\ locals = [r \in Runs |-> << >>]
    /\ results = [r \in Runs |-> EmptyMap]
    /\ calls = << >>

\* inputs: every length, fraction, horizon list and lag order on the ramp
\* and the long series; every ramp and flat series with every single
\* perturbation on the longest short series; the long series with every
\* single perturbation where the window is full
InitStatic ==
    /\ proto = "static"
    /\ \/ \E n \in Lens, hs \in HorizonLists, p \in 1..MaxP, tf \in TrainFracs :
            /\ y = <<SeriesOf(n), SeriesOf(n)>>
            /\ args = [train_frac |-> tf, horizons |-> hs, p |-> p,
                       W_min |-> 0, step |-> 1]
       \/ \E tf \in TrainFracs :
            /\ y \in SeriesPairs(ShortLen) \cup LongPairs(LongLen)
            /\ args = [train_frac |-> tf, horizons |-> FullHorizons, p |-> MaxP,
                       W_min |-> 0, step |-> 1]
    /\ ret = [r \in Runs |-> EmptyMap]
    /\ InitCommon

NextStatic == StaticCall \/ StaticHorizon \/ StaticReturn \/ MainHstar

SpecStatic == InitStatic /\ [][NextStatic]_vars

\* inputs: every length, start and lag order on the ramp and the long
\* series; every start, step and horizon list on the longest ramp and on the
\* long series; every ramp and flat series with every single perturbation
\* on the longest short series; the long series with every single
\* perturbation where the window is full; the pairs of short series also
\* from one origin earlier, which trains on a single lag row
InitRolling ==
    /\ proto = "rolling"
    /\ \/ \E n \in Lens, p \in 1..MaxP :
          \E w \in StartsFor(n) :
            /\ y = <<SeriesOf(n), SeriesOf(n)>>
            /\ args = [train_frac |-> DefaultFrac, horizons |-> FullHorizons,
                       p |-> p, W_min |-> w, step |-> 1]
       \/ \E n \in {ShortLen, LongLen}, hs \in HorizonLists, st \in 1..MaxStep :
          \E w \in StartsFor(n) :
            /\ y = <<SeriesOf(n), SeriesOf(n)>>
            /\ args = [train_frac |-> DefaultFrac, horizons |-> hs,
                       p |-> 1, W_min |-> w, step |-> st]
       \/ /\ y \in SeriesPairs(ShortLen) \cup LongPairs(LongLen)
          /\ args = [train_frac |-> DefaultFrac, horizons |-> FullHorizons,
                     p |-> MaxP, W_min |-> Len(y[1]) - MaxBack, step |-> 1]
       \/ /\ y \in SeriesPairs(ShortLen)
          /\ args = [train_frac |-> DefaultFrac, horizons |-> FullHorizons,
                     p |-> MaxP, W_min |-> ShortLen - MaxBack - 1, step |-> 1]
    /\ ret = [r \in Runs |-> EmptyMap]
    /\ InitCommon

NextRolling == RollingCall \/ RollingFit \/ RollingHorizon \/ RollingAggregate \/ MainHstar

SpecRolling == InitRolling /\ [][NextRolling]_vars

(* --------------------- compute_hstar on its own ----------------------- *)
SkillVals == { QInt(-1), QInt(0), QRat(1, 2), QInt(1) }

\* every mapping from a set of horizons to a record with a skill
SkillMaps ==
    UNION { [S -> [rmse : {QInt(0)}, skill : SkillVals]] : S \in SUBSET (1..(MaxH + 1)) }

InitHstar ==
    /\ proto = "hstar"
    /\ y = << << >>, << >> >>
    /\ args = [train_frac |-> DefaultFrac, horizons |-> FullHorizons,
               p |-> 1, W_min |-> 0, step |-> 1]
    /\ InitCommon
    /\ \E m \in SkillMaps : ret = [r \in Runs |-> m]

\* compute_hstar(results, threshold) on the mapping at hand
HstarCall ==
    /\ proto = "hstar"
    /\ Len(calls) < MaxCalls
    /\ \E t \in SkillVals :
         calls' = Append(calls,
                         [threshold |-> t,
                          hstar |-> [r \in Runs |-> compute_hstar(ret[r], t)]])
    /\ UNCHANGED <<proto, y, args, pc, outcome, split_idx, origins, origin, visited,
                   fit, model, hi, locals, results, ret>>

NextHstar == HstarCall

SpecHstar == InitHstar /\ [][NextHstar]_vars

(* ------------------------- the whole program -------------------------- *)
Init == InitStatic \/ InitRolling \/ InitHstar

Next ==
    \/ StaticCall \/ StaticHorizon \/ StaticReturn
    \/ RollingCall \/ RollingFit \/ RollingHorizon \/ RollingAggregate
    \/ MainHstar \/ HstarCall

Spec == Init /\ [][Next]_vars

(* ============================== properties ============================ *)
N == Len(y[1])

HorizonSet == { args.horizons[i] : i \in 1..Len(args.horizons) }

Samples(r) == { locals[r][i] : i \in 1..Len(locals[r]) }

\* the two series have the same value at every index below o
AgreeBelow(o) == \A i \in 0..(Min(o, N) - 1) : At(y[1], i) = At(y[2], i)

\* the objects of an evaluation point exist
Fitted ==
    \/ proto = "static" /\ pc # "call"
    \/ proto = "rolling" /\ visited # << >>

Finished == pc \in {"returned", "done"}

(* ---- C1 ---- *)
\* C1: causality of the rolling protocol. When the two series agree on every
\* index below the origin being processed, the training slice and its
\* smoothing, the scaler, the lag matrix and targets, the fitted objects,
\* and, for every horizon evaluated at this origin, the test feature row,
\* the forecast y_pred and the persistence value are the same in both runs.
C1_RollingCausal ==
    (proto = "rolling" /\ visited # << >> /\ AgreeBelow(origin)) =>
        /\ fit[1] = fit[2]
        /\ model[1] = model[2]
        /\ \A i \in 1..Len(locals[1]) :
             locals[1][i].point = origin =>
                /\ locals[1][i].X_test = locals[2][i].X_test
                /\ locals[1][i].y_pred = locals[2][i].y_pred
                /\ locals[1][i].y_persist = locals[2][i].y_persist

\* a forecast from an origin past a full window, on two series that agree
\* below the origin and differ in the true value it is compared against
C1_Witness ==
    /\ proto = "rolling"
    /\ origin > Window
    /\ AgreeBelow(origin)
    /\ \E i \in 1..Len(locals[1]) :
         /\ locals[1][i].point = origin
         /\ locals[1][i].y_true # locals[2][i].y_true
         /\ locals[1][i].y_pred = locals[2][i].y_pred

(* ---- C2 ---- *)
\* C2: leak of the static protocol. Whenever the two series agree below the
\* split index k and differ at index k, the first index of the test region,
\* the smoothed training inputs y_rolled[0..k-1] of the two runs differ.
C2_LeakIntoTraining ==
    (/\ proto = "static"
     /\ pc # "call"
     /\ split_idx < N
     /\ AgreeBelow(split_idx)
     /\ At(y[1], split_idx) # At(y[2], split_idx))
        => fit[1].train_in # fit[2].train_in

\* what the code does instead: the smoothed training input is the same
\* whenever the two series agree below the split index
C2_TrainingInputIsCausal ==
    (proto = "static" /\ pc # "call" /\ AgreeBelow(split_idx))
        => fit[1].train_in = fit[2].train_in

(* ---- C3 ---- *)
\* the horizons of a mapping whose skill is strictly above the threshold
Qualifying(m, t) == { h \in DOMAIN m : QLess(t, m[h].skill) }

\* C3: every compute_hstar call returns the largest horizon of the mapping
\* whose skill is strictly above the threshold, and 0 when there is none;
\* the value is 0 or a key of the mapping.
C3_HstarIsLargestQualifying ==
    \A c \in 1..Len(calls) : \A r \in Runs :
        LET Q == Qualifying(ret[r], calls[c].threshold)
            v == calls[c].hstar[r]
        IN /\ v \in {0} \cup DOMAIN ret[r]
           /\ Q = {} => v = 0
           /\ Q # {} => (v \in Q /\ \A h \in Q : h <= v)

\* a call that returns a horizon although a larger key is present whose
\* skill equals the threshold exactly, and a smaller key qualifies too
C3_Witness ==
    \E c \in 1..Len(calls) :
        LET v == calls[c].hstar[1]
        IN /\ v # 0
           /\ \E h \in DOMAIN ret[1] : h > v /\ QEq(ret[1][h].skill, calls[c].threshold)
           /\ \E h \in Qualifying(ret[1], calls[c].threshold) : h < v

(* ---- C4 ---- *)
\* the origins W_min, W_min+step, .. below n - max(horizons)
ExpectedOrigins ==
    { o \in 0..N : /\ o >= args.W_min
                   /\ (o - args.W_min) % args.step = 0
                   /\ \A h \in HorizonSet : o < N - h }

\* C4: the origins processed are W_min, W_min+step, .. in this order, all
\* below n - max(horizons), and all of them once the protocol returns; when
\* W_min >= n - max(horizons) no origin is processed, nothing is raised,
\* the mapping returned is empty and compute_hstar of it is 0.
C4_Origins ==
    proto = "rolling" =>
        /\ \A i \in 1..Len(visited) :
             /\ visited[i] = args.W_min + (i - 1) * args.step
             /\ visited[i] \in ExpectedOrigins
        /\ Finished => { visited[i] : i \in 1..Len(visited) } = ExpectedOrigins
        /\ (\E h \in HorizonSet : args.W_min >= N - h) =>
              /\ visited = << >>
              /\ pc # "raised"
              /\ outcome = "none"
              /\ Finished => \A r \in Runs : ret[r] = EmptyMap
              /\ pc = "done" => calls[1].hstar = <<0, 0>>

\* a finished run on a non-empty series whose W_min leaves no origin
C4_Witness ==
    /\ proto = "rolling"
    /\ pc = "done"
    /\ N > 0
    /\ args.W_min < N
    /\ \E h \in HorizonSet : args.W_min >= N - h
    /\ calls[1].hstar = <<0, 0>>

(* ---- C5 ---- *)
\* the horizons the static guard lets through
StaticEmitted ==
    { h \in HorizonSet : split_idx + args.p + h < N }

\* C5: in the static protocol with k > p nothing is raised; the horizons in
\* the result are exactly the requested h with k + p + h < n; and every
\* emitted horizon reads inside the series: the test window [k, k+p), the
\* true value at k + h - 1 and the persistence value at k - 1.
C5_StaticHorizons ==
    (proto = "static" /\ pc # "call" /\ split_idx > args.p) =>
        /\ pc # "raised"
        /\ outcome = "none"
        /\ \A r \in Runs :
             /\ DOMAIN results[r] =
                  { args.horizons[i] : i \in 1..Min(hi - 1, Len(args.horizons)) }
                  \cap StaticEmitted
             /\ Finished => DOMAIN ret[r] = StaticEmitted
             /\ \A e \in Samples(r) :
                  /\ e.h \in StaticEmitted
                  /\ e.win = <<split_idx, split_idx + args.p>>
                  /\ e.win[2] <= N
                  /\ e.i_true = split_idx + e.h - 1
                  /\ e.i_true < N
                  /\ e.i_persist = split_idx - 1
                  /\ e.i_persist >= 0

\* a returned static result that holds one requested horizon and omits another
C5_Witness ==
    /\ proto = "static"
    /\ pc = "returned"
    /\ split_idx > args.p
    /\ DOMAIN ret[1] # {}
    /\ DOMAIN ret[1] # HorizonSet

(* ---- C6 ---- *)
\* the training input of the current evaluation point has at most p values
NoTrainingWindow ==
    \/ proto = "static" /\ pc # "call" /\ split_idx <= args.p
    \/ proto = "rolling" /\ visited # << >> /\ origin <= args.p

\* the rolling protocol has no origin at all
NoOrigin == proto = "rolling" /\ pc # "call" /\ ExpectedOrigins = {}

\* C6 as claimed: a run that cannot produce one valid origin or training
\* window ends with an InsufficientDataError raised to the caller.
C6_InsufficientDataError ==
    ((NoTrainingWindow \/ NoOrigin) /\ pc \in {"raised", "returned", "done"})
        => (pc = "raised" /\ outcome = "InsufficientDataError")

\* C6 as amended: a training input of at most p values ends the protocol with
\* the library's ValueError and without a result; nothing else is ever
\* raised; and a rolling run without any origin raises nothing and returns
\* the empty mapping.
C6_LibraryValueError ==
    /\ NoTrainingWindow =>
          /\ pc = "raised"
          /\ outcome = "ValueError"
          /\ \A r \in Runs : ret[r] = EmptyMap /\ locals[r] = << >>
          /\ calls = << >>
    /\ pc = "raised" => (NoTrainingWindow /\ outcome = "ValueError")
    /\ pc # "raised" => outcome = "none"
    /\ NoOrigin =>
          /\ pc # "raised"
          /\ Finished => \A r \in Runs : ret[r] = EmptyMap

\* a rolling run ended by the ValueError at an origin with 1..p values
C6_Witness ==
    /\ proto = "rolling"
    /\ pc = "raised"
    /\ outcome = "ValueError"
    /\ origin >= 1
    /\ origin <= args.p

(* ---- C7 ---- *)
\* the skills recorded for horizon h, in the order of the iterations
SkillsOf(r, h) ==
    LET sel == SelectSeq(locals[r], LAMBDA e : e.h = h)
    IN [i \in 1..Len(sel) |-> sel[i].skill]

\* C7: every sample's skill is 1 - err_model/err_persist when err_persist > 0
\* and 0 when err_persist = 0, with err_model and err_persist the squared
\* errors of the forecast and of the persistence value; so it is 0 when the
\* two errors are equal and 1 when err_model = 0 < err_persist; and this is
\* the skill the protocol records for the horizon.
C7_Skill ==
    \A r \in Runs :
        /\ \A e \in Samples(r) :
             LET yt == QInt(e.y_true)
                 em == QAdd(QSub(QMul(e.y_pred, e.y_pred),
                                 QMul(QInt(2), QMul(yt, e.y_pred))),
                            QMul(yt, yt))
                 ep == (e.y_persist - e.y_true) * (e.y_persist - e.y_true)
             IN /\ QEq(e.err_model, em)
                /\ e.err_persist = ep
                /\ e.skill.d.sg = 1
                /\ ep > 0 => QEq(QMul(e.skill, QInt(ep)), QSub(QInt(ep), em))
                /\ ep = 0 => QEq(e.skill, QInt(0))
                /\ QEq(em, QInt(ep)) => QEq(e.skill, QInt(0))
                /\ (QEq(em, QInt(0)) /\ ep > 0) => QEq(e.skill, QInt(1))
        /\ proto = "static" =>
             \A h \in DOMAIN results[r] :
                \E e \in Samples(r) : e.h = h /\ results[r][h].skill = e.skill
        /\ proto = "rolling" =>
             \A h \in DOMAIN results[r] : results[r][h].skill = SkillsOf(r, h)

\* the quotient matters for the sample: err_persist > 1 and err_model is
\* neither 0 nor err_persist, so that 1 - err_model/err_persist differs from
\* 1 - err_model, from err_model/err_persist, from 0 and from 1
QuotientCase(e) ==
    /\ e.err_persist > 1
    /\ ~QEq(e.err_model, QInt(0))
    /\ ~QEq(e.err_model, QInt(e.err_persist))
    /\ ~QEq(e.skill, QSub(QInt(1), e.err_model))
    /\ ~QEq(e.skill, QInt(0))
    /\ ~QEq(e.skill, QInt(1))

\* a perfect forecast where persistence is off
PerfectCase(e) ==
    /\ QEq(e.y_pred, QInt(e.y_true))
    /\ QEq(e.err_model, QInt(0))
    /\ e.err_persist > 0

\* persistence is exact while the forecast is off
ZeroPersistCase(e) ==
    /\ e.y_persist = e.y_true
    /\ e.err_persist = 0
    /\ ~QEq(e.err_model, QInt(0))

\* the forecast and persistence are off by the same amount
EqualErrorCase(e) ==
    /\ e.err_persist > 0
    /\ QEq(e.err_model, QInt(e.err_persist))

\* one run with a sample of each case: the quotient case with its skill
\* (err_persist - err_model)/err_persist, a perfect forecast with skill 1,
\* exact persistence with skill 0 and equal errors with skill 0
C7_Witness ==
    \E r \in Runs :
        /\ \E e \in Samples(r) :
             /\ QuotientCase(e)
             /\ QEq(QMul(e.skill, QInt(e.err_persist)),
                    QSub(QInt(e.err_persist), e.err_model))
        /\ \E e \in Samples(r) : PerfectCase(e) /\ QEq(e.skill, QInt(1))
        /\ \E e \in Samples(r) : ZeroPersistCase(e) /\ QEq(e.skill, QInt(0))
        /\ \E e \in Samples(r) : EqualErrorCase(e) /\ QEq(e.skill, QInt(0))

(* ---- C9 ---- *)
\* the index one past the test window: k + p in the static protocol, the
\* origin in the rolling protocol
WindowEnd(e) == IF proto = "static" THEN e.point + args.p ELSE e.point

\* C9: for a training input of length L > p the lag matrix and the targets
\* have L - p rows; the row of index i (p <= i < L) holds the standardized
\* values at i-1, i-2, .., i-p in this order and its target is the value at
\* i; the test row is in the same order: the smoothed values at k+p-1 down
\* to k (static), at o-1 down to o-p (rolling).
C9_LagMatrix ==
    Fitted =>
      \A r \in Runs :
        LET z == scaler_transform(fit[r].train_in)
            L == Len(z)
            p == args.p
        IN /\ L > p =>
                /\ Len(fit[r].X_train) = L - p
                /\ Len(fit[r].y_train_target) = L - p
                /\ \A i \in p..(L - 1) :
                     /\ Len(fit[r].X_train[i - p + 1]) = p
                     /\ \A j \in 1..p : fit[r].X_train[i - p + 1][j] = At(z, i - j)
                     /\ fit[r].y_train_target[i - p + 1] = At(z, i)
           /\ \A e \in Samples(r) :
                (proto = "static" \/ e.point = origin) =>
                   /\ Len(e.X_test) = p
                   /\ \A j \in 1..p :
                        e.X_test[j] = [z |-> At(fit[r].smoothed, WindowEnd(e) - j)]

\* a fit of lag order 2 or more on a long training input whose rows show the
\* order (two neighbouring lags that differ), with a test row built
C9_Witness ==
    /\ Fitted
    /\ args.p >= 2
    /\ \E r \in Runs :
         /\ Len(fit[r].train_in) > Window
         /\ \E i \in 1..Len(fit[r].X_train) :
              fit[r].X_train[i][1] # fit[r].X_train[i][2]
         /\ \E e \in Samples(r) : e.X_test[1] # e.X_test[2]

(* ---- C10 ---- *)
\* C10: within one evaluation point the test row, the forecast and the
\* persistence value are the same for every horizon; the horizon selects
\* only the true value, at index point + h - 1.
C10_OneForecastPerPoint ==
    \A r \in Runs :
        /\ \A e \in Samples(r) :
             /\ e.i_true = e.point + e.h - 1
             /\ e.y_true = At(y[r], e.i_true)
             /\ e.i_persist = e.point - 1
             /\ e.y_persist = At(y[r], e.i_persist)
        /\ \A e1, e2 \in Samples(r) :
             e1.point = e2.point =>
                /\ e1.X_test = e2.X_test
                /\ e1.y_pred = e2.y_pred
                /\ e1.y_persist = e2.y_persist

\* two horizons of one evaluation point compared against different true
\* values, in each protocol's loop
C10_Witness ==
    /\ proto = "static"
    /\ args.p >= 2
    /\ \E r \in Runs : \E e1, e2 \in Samples(r) :
         /\ e1.point = e2.point
         /\ e1.h # e2.h
         /\ e1.y_true # e2.y_true
         /\ e1.y_pred = e2.y_pred
         /\ e1.X_test[1] # e1.X_test[2]

(* ---- C8 ---- *)
\* C8: H* does not grow with the threshold: of two compute_hstar calls on
\* the same mapping, the one with the larger threshold returns at most what
\* the other returns.
C8_HstarMonotone ==
    \A a, b \in 1..Len(calls) : \A r \in Runs :
        ~QLess(calls[b].threshold, calls[a].threshold)
            => calls[b].hstar[r] <= calls[a].hstar[r]

\* two calls on one mapping where the larger threshold lowers H* to a
\* smaller horizon that is not 0
C8_Witness ==
    \E a, b \in 1..Len(calls) :
        /\ QLess(calls[a].threshold, calls[b].threshold)
        /\ calls[b].hstar[1] < calls[a].hstar[1]
        /\ calls[b].hstar[1] > 0

====
